---- MODULE Spec2Model ----
(***************************************************************************)
(* Reservation core of back-vehiculos: the reservas table, the             *)
(* availability query and insert of crud.create_reserva, and the           *)
(* cancellation handler main.delete_reserva.                               *)
(*                                                                         *)
(* Spec    : request handlers run in worker threads, each with its own     *)
(*           database session; create_reserva's availability query and its *)
(*           insert+commit are two steps that interleave with other calls. *)
(* SeqSpec : every call runs to completion before the next one starts;     *)
(*           it also has the two list handlers, which write nothing.       *)
(*                                                                         *)
(* Datetimes are the integers 0..MaxTime.  Table reservas holds at most    *)
(* two rows at a time and table vehiculos at most two; rows of reservas    *)
(* are inserted and cancelled any number of times.  A response records     *)
(* the handler, the answer, the caller and the row id, not the request's   *)
(* vehicle and dates: what a call with given arguments answers in a state  *)
(* is stated with ENABLED.                                                 *)
(***************************************************************************)
EXTENDS Integers, FiniteSets, Sequences, TLC

\* ---- bounds of the model ----
MaxTime == 2          \* datetimes are 0..MaxTime

Tiempos == 0..MaxTime
\* The finite universes of the model: the primary keys the tables can hold
\* at one time (rows are inserted and deleted without end), the registered
\* users, the worker threads serving requests.
VehiculoIds == {1, 2}
ReservaIds == {1, 2}
Usuarios == {1, 2}
Sesiones == {1, 2}

\* models.User.rol: user 1 was promoted to Administrador, the others keep
\* the default that crud.create_user writes.
rol == [u \in Usuarios |-> IF u = 1 THEN "Administrador" ELSE "Cliente"]

VARIABLES
    vehiculos,   \* ids of the rows of table vehiculos
    reservas,    \* rows of table reservas
    ahora,       \* datetime.now()
    pc,          \* per session: "idle", or "commit" between query and insert
    pend,        \* per session: the Reserva row built by a create_reserva call
    last         \* response of the call that completed in the last step

vars == <<vehiculos, reservas, ahora, pc, pend, last>>

\* ---- responses ----
\* op: the handler; status, detail: the HTTP answer; usuario: current_user;
\* key: the id of the row the call created or was aimed at (0: none);
\* body: the rows a list handler returns.
Resp(op, status, detail, u, key) ==
    [op |-> op, status |-> status, detail |-> detail, usuario |-> u, key |-> key,
     body |-> {}]

\* The answer of a handler that returns a list.
RespBody(op, u, body) ==
    [Resp(op, 200, "", u, 0) EXCEPT !.body = body]

NoResp == Resp("none", 0, "", 0, 0)

NoDisponible == "El vehiculo no esta disponible en las fechas seleccionadas"
NoEncontrada == "Reserva no encontrada"
SinPermiso == "No tienes permiso para cancelar esta reserva"
YaComenzada == "No se puede cancelar una reserva que ya ha comenzado"
Cancelada == "Reserva cancelada correctamente"
SoloAdmin == "Se requieren privilegios de administrador"

NoRow == [id |-> 0, vehiculo_id |-> 0, usuario_id |-> 0,
          fecha_reserva |-> 0, fecha_devolucion |-> 0]

\* ---- crud.py ----

\* Variants of the filter below as a slip would write it: strict
\* comparisons; a stored row counted only when it contains the request;
\* a stored row counted only when it starts inside the request.
SolapaStrict(r, fi, ff) ==
    r.fecha_reserva < ff /\ r.fecha_devolucion > fi

SolapaContenida(r, fi, ff) ==
    r.fecha_reserva <= fi /\ r.fecha_devolucion >= ff

SolapaInicio(r, fi, ff) ==
    r.fecha_reserva <= ff /\ r.fecha_reserva >= fi

\* The filter inside Vehiculo.reservas.any(...): row r against the request.
Solapa(r, fi, ff) ==
    r.fecha_reserva <= ff /\ r.fecha_devolucion >= fi

\* Variant of the query: a reserva of any vehicle in the range excludes the row.
vehiculo_disponible_global(vs, rs, vid, fi, ff) ==
    /\ vid \in vs
    /\ ~ \E r \in rs : Solapa(r, fi, ff)

\* The query of create_reserva: the vehicle row with the given id that has
\* no overlapping reserva; .first() is None when there is no such row.
vehiculo_disponible(vs, rs, vid, fi, ff) ==
    /\ vid \in vs
    /\ ~ \E r \in rs : r.vehiculo_id = vid /\ Solapa(r, fi, ff)

\* Variants of the filter of get_vehiculos_disponibles: strict comparisons;
\* both dates compared with the end of the range.
SolapaDisponiblesStrict(r, fi, ff) ==
    r.fecha_reserva < ff /\ r.fecha_devolucion > fi

SolapaDisponiblesFin(r, fi, ff) ==
    r.fecha_reserva <= ff /\ r.fecha_devolucion >= ff

\* The filter of the subquery of get_vehiculos_disponibles.
SolapaDisponibles(r, fi, ff) ==
    r.fecha_reserva <= ff /\ r.fecha_devolucion >= fi

\* Variant: the vehicles that do have a reserva in the range.
get_vehiculos_disponibles_in(vs, rs, fi, ff) ==
    LET subquery == {r.vehiculo_id : r \in {x \in rs : SolapaDisponibles(x, fi, ff)}}
    IN  {v \in vs : v \in subquery}

\* The vehicles whose id is not in the subquery of the vehiculo_id of the
\* reservas in the range.
get_vehiculos_disponibles(vs, rs, fi, ff) ==
    LET subquery == {r.vehiculo_id : r \in {x \in rs : SolapaDisponibles(x, fi, ff)}}
    IN  {v \in vs : v \notin subquery}

\* Variant: the reservas that have begun, ended or not.
get_reservas_activas_usuario_begun(rs, u, t) ==
    {r \in rs : r.usuario_id = u /\ r.fecha_reserva <= t}

\* The reservas of the user with fecha_reserva <= ahora <= fecha_devolucion.
get_reservas_activas_usuario(rs, u, t) ==
    {r \in rs : /\ r.usuario_id = u
                 /\ r.fecha_reserva <= t
                 /\ r.fecha_devolucion >= t}

\* Variant: the two dates stored in each other's column.
db_reserva_swapped(vid, u, fi, ff) ==
    [id |-> 0, vehiculo_id |-> vid, usuario_id |-> u,
     fecha_reserva |-> ff, fecha_devolucion |-> fi]

\* Reserva(**reserva.dict(), usuario_id=usuario_id), before the id is set.
db_reserva(vid, u, fi, ff) ==
    [id |-> 0, vehiculo_id |-> vid, usuario_id |-> u,
     fecha_reserva |-> fi, fecha_devolucion |-> ff]

\* The primary key the database gives an inserted row: one that no stored
\* row has.  The code compares ids for equality only, so any unused id
\* stands for the next sequence value or the next rowid.
NuevosIds(rs) == ReservaIds \ {r.id : r \in rs}

\* Variant of the insert below: the stored rows are handed to the new owner.
InsertarReasigna(rs, row, id) ==
    {[r EXCEPT !.usuario_id = row.usuario_id] : r \in rs} \cup {[row EXCEPT !.id = id]}

\* db.add, db.commit: one new row, the stored ones untouched.
Insertar(rs, row, id) == rs \cup {[row EXCEPT !.id = id]}

\* ---- main.py ----

\* crud.get_reserva: the row with the given id, None (NoRow) when absent.
get_reserva(rs, rid) ==
    IF \E r \in rs : r.id = rid THEN CHOOSE r \in rs : r.id = rid ELSE NoRow

\* Variant of the delete below: the row is kept.
crud_delete_reserva_keep(rs, rid) == rs

\* crud.delete_reserva: hard delete of the row with the given id.
crud_delete_reserva(rs, rid) == {r \in rs : r.id # rid}

\* Variants of the permission test below: "or" for "and"; the role
\* comparison inverted.
SinPermisoCancelarOr(r, u) ==
    r.usuario_id # u \/ rol[u] # "Administrador"

SinPermisoCancelarFlip(r, u) ==
    r.usuario_id # u /\ rol[u] = "Administrador"

\* db_reserva.usuario_id != current_user.id and current_user.rol != "Administrador"
SinPermisoCancelar(r, u) ==
    r.usuario_id # u /\ rol[u] # "Administrador"

\* datetime.now() > db_reserva.fecha_reserva
YaComenzo(t, r) == t > r.fecha_reserva

\* ---- actions ----

TypeOK ==
    /\ vehiculos \subseteq VehiculoIds
    /\ \A r \in reservas :
          /\ r.id \in ReservaIds
          /\ r.vehiculo_id \in VehiculoIds
          /\ r.usuario_id \in Usuarios
          /\ r.fecha_reserva \in Tiempos
          /\ r.fecha_devolucion \in Tiempos
    /\ ahora \in Tiempos
    /\ pc \in [Sesiones -> {"idle", "commit"}]

Init ==
    /\ vehiculos = {}
    /\ reservas = {}
    /\ ahora = 0
    /\ pc = [p \in Sesiones |-> "idle"]
    /\ pend = [p \in Sesiones |-> NoRow]
    /\ last = NoResp

\* The clock advances.
Tick ==
    /\ ahora < MaxTime
    /\ ahora' = ahora + 1
    /\ last' = NoResp
    /\ UNCHANGED <<vehiculos, reservas, pc, pend>>

\* POST /vehiculos/ (get_admin_user, then crud.create_vehiculo).
create_vehiculo(u) ==
    /\ IF rol[u] # "Administrador"
       THEN /\ last' = Resp("create_vehiculo", 403, SoloAdmin, u, 0)
            /\ UNCHANGED vehiculos
       ELSE /\ Cardinality(vehiculos) + 1 \in VehiculoIds
            /\ vehiculos' = vehiculos \cup {Cardinality(vehiculos) + 1}
            /\ last' = Resp("create_vehiculo", 200, "", u,
                            Cardinality(vehiculos) + 1)
    /\ UNCHANGED <<reservas, ahora, pc, pend>>

Pendientes == Cardinality({p \in Sesiones : pc[p] = "commit"})


\* Variant of the first step below: a call is refused while another session
\* has a call on the same vehicle between its query and its commit.
create_reserva_query_busy(p, u, vid, fi, ff) ==
    /\ pc[p] = "idle"
    /\ \A q \in Sesiones : q < p => pc[q] # "idle"
    /\ IF /\ vehiculo_disponible(vehiculos, reservas, vid, fi, ff)
          /\ ~ \E q \in Sesiones : pc[q] = "commit" /\ pend[q].vehiculo_id = vid
       THEN /\ Cardinality(reservas) + Pendientes < Cardinality(ReservaIds)
            /\ pc' = [pc EXCEPT ![p] = "commit"]
            /\ pend' = [pend EXCEPT ![p] = db_reserva(vid, u, fi, ff)]
            /\ last' = NoResp
       ELSE /\ last' = Resp("create_reserva", 400, NoDisponible, u, 0)
            /\ UNCHANGED <<pc, pend>>
    /\ UNCHANGED <<vehiculos, reservas, ahora>>

\* POST /reservas/, first step: the availability query; ValueError becomes
\* HTTP 400.  The request is served by the first idle worker.
create_reserva_query(p, u, vid, fi, ff) ==
    /\ pc[p] = "idle"
    /\ \A q \in Sesiones : q < p => pc[q] # "idle"
    /\ IF vehiculo_disponible(vehiculos, reservas, vid, fi, ff)
       THEN /\ Cardinality(reservas) + Pendientes < Cardinality(ReservaIds)
            /\ pc' = [pc EXCEPT ![p] = "commit"]
            /\ pend' = [pend EXCEPT ![p] = db_reserva(vid, u, fi, ff)]
            /\ last' = NoResp
       ELSE /\ last' = Resp("create_reserva", 400, NoDisponible, u, 0)
            /\ UNCHANGED <<pc, pend>>
    /\ UNCHANGED <<vehiculos, reservas, ahora>>

\* POST /reservas/, second step: db.add, db.commit, db.refresh, return.
create_reserva_commit(p) ==
    /\ pc[p] = "commit"
    /\ \E id \in NuevosIds(reservas) :
          /\ reservas' = Insertar(reservas, pend[p], id)
          /\ last' = Resp("create_reserva", 200, "", pend[p].usuario_id, id)
    /\ pc' = [pc EXCEPT ![p] = "idle"]
    /\ pend' = [pend EXCEPT ![p] = NoRow]
    /\ UNCHANGED <<vehiculos, ahora>>

\* Variant: the row is added and committed before availability is looked at.
create_reserva_insert_first(u, vid, fi, ff) ==
    /\ \E id \in NuevosIds(reservas) :
          /\ reservas' = Insertar(reservas, db_reserva(vid, u, fi, ff), id)
          /\ last' = IF vehiculo_disponible(vehiculos, reservas, vid, fi, ff)
                     THEN Resp("create_reserva", 200, "", u, id)
                     ELSE Resp("create_reserva", 400, NoDisponible, u, 0)
    /\ UNCHANGED <<vehiculos, ahora, pc, pend>>

\* POST /reservas/ run to completion with no other call in between.
create_reserva(u, vid, fi, ff) ==
    /\ IF vehiculo_disponible(vehiculos, reservas, vid, fi, ff)
       THEN \E id \in NuevosIds(reservas) :
                  /\ reservas' = Insertar(reservas, db_reserva(vid, u, fi, ff), id)
                  /\ last' = Resp("create_reserva", 200, "", u, id)
       ELSE /\ last' = Resp("create_reserva", 400, NoDisponible, u, 0)
            /\ UNCHANGED reservas
    /\ UNCHANGED <<vehiculos, ahora, pc, pend>>

\* Variant of the handler below: the start-time test comes before the
\* permission test.
delete_reserva_time_first(u, rid) ==
    /\ LET r == get_reserva(reservas, rid) IN
          IF r = NoRow
          THEN /\ last' = Resp("delete_reserva", 404, NoEncontrada, u, rid)
               /\ UNCHANGED reservas
          ELSE IF YaComenzo(ahora, r)
          THEN /\ last' = Resp("delete_reserva", 400, YaComenzada, u, rid)
               /\ UNCHANGED reservas
          ELSE IF SinPermisoCancelar(r, u)
          THEN /\ last' = Resp("delete_reserva", 403, SinPermiso, u, rid)
               /\ UNCHANGED reservas
          ELSE /\ reservas' = crud_delete_reserva(reservas, rid)
               /\ last' = Resp("delete_reserva", 200, Cancelada, u, rid)
    /\ UNCHANGED <<vehiculos, ahora, pc, pend>>

\* DELETE /reservas/{reserva_id}
delete_reserva(u, rid) ==
    /\ LET r == get_reserva(reservas, rid) IN
          IF r = NoRow
          THEN /\ last' = Resp("delete_reserva", 404, NoEncontrada, u, rid)
               /\ UNCHANGED reservas
          ELSE IF SinPermisoCancelar(r, u)
          THEN /\ last' = Resp("delete_reserva", 403, SinPermiso, u, rid)
               /\ UNCHANGED reservas
          ELSE IF YaComenzo(ahora, r)
          THEN /\ last' = Resp("delete_reserva", 400, YaComenzada, u, rid)
               /\ UNCHANGED reservas
          ELSE /\ reservas' = crud_delete_reserva(reservas, rid)
               /\ last' = Resp("delete_reserva", 200, Cancelada, u, rid)
    /\ UNCHANGED <<vehiculos, ahora, pc, pend>>

\* GET /vehiculos/disponibles/ (no authentication).
read_vehiculos_disponibles(fi, ff) ==
    /\ last' = RespBody("read_vehiculos_disponibles", 0,
                        get_vehiculos_disponibles(vehiculos, reservas, fi, ff))
    /\ UNCHANGED <<vehiculos, reservas, ahora, pc, pend>>

\* GET /reservas/me/activas/
read_reservas_activas_usuario(u) ==
    /\ last' = RespBody("read_reservas_activas_usuario", u,
                        get_reservas_activas_usuario(reservas, u, ahora))
    /\ UNCHANGED <<vehiculos, reservas, ahora, pc, pend>>

Next ==
    \/ Tick
    \/ \E u \in Usuarios : create_vehiculo(u)
    \/ \E p \in Sesiones, u \in Usuarios, vid \in VehiculoIds, fi \in Tiempos, ff \in Tiempos :
          create_reserva_query(p, u, vid, fi, ff)
    \/ \E p \in Sesiones : create_reserva_commit(p)
    \/ \E u \in Usuarios, rid \in ReservaIds : delete_reserva(u, rid)

Spec == Init /\ [][Next]_vars

SeqNext ==
    \/ Tick
    \/ \E u \in Usuarios : create_vehiculo(u)
    \/ \E u \in Usuarios, vid \in VehiculoIds, fi \in Tiempos, ff \in Tiempos :
          create_reserva(u, vid, fi, ff)
    \/ \E u \in Usuarios, rid \in ReservaIds : delete_reserva(u, rid)
    \/ \E fi \in Tiempos, ff \in Tiempos : read_vehiculos_disponibles(fi, ff)
    \/ \E u \in Usuarios : read_reservas_activas_usuario(u)

SeqSpec == Init /\ [][SeqNext]_vars

\* ---- properties ----

\* The overlap rule as the specification states it for two stored rows.
Overlaps(a, b) ==
    a.fecha_reserva <= b.fecha_devolucion /\ a.fecha_devolucion >= b.fecha_reserva

\* C1: under concurrent create_reserva calls no reachable store holds two
\* reservations of the same vehicle whose intervals overlap.
C1_NoDoubleBookingConcurrent ==
    \A a \in reservas : \A b \in reservas :
        (a.id # b.id /\ a.vehiculo_id = b.vehiculo_id) => ~ Overlaps(a, b)

\* C2: when every call runs to completion before the next one starts, any
\* two distinct stored reservations of one vehicle fail the overlap
\* predicate, inverted intervals included.
C2_NoOverlapSequential ==
    \A a \in reservas : \A b \in reservas :
        (a # b /\ a.vehiculo_id = b.vehiculo_id) =>
            ~ (a.fecha_reserva <= b.fecha_devolucion
               /\ a.fecha_devolucion >= b.fecha_reserva)

\* Two rows of one vehicle are stored, one of them inverted, the second one
\* just inserted.
C2_Witness ==
    /\ last.op = "create_reserva" /\ last.status = 200
    /\ \E a \in reservas : \E b \in reservas :
          /\ a # b /\ a.vehiculo_id = b.vehiculo_id
          /\ a.fecha_reserva > a.fecha_devolucion
          /\ b.fecha_reserva <= b.fecha_devolucion

\* No stored reservation of vehicle vid overlaps the requested [fi, ff].
Libre(vid, fi, ff) ==
    ~ \E r \in reservas :
        /\ r.vehiculo_id = vid
        /\ r.fecha_reserva <= ff
        /\ r.fecha_devolucion >= fi

\* The table has room for one more row (the model's tables are finite).
HayLugar == Cardinality(reservas) < Cardinality(ReservaIds)

\* C3: create_reserva on an existing vehicle succeeds if and only if no
\* stored reservation of that vehicle has start <= requested end and
\* end >= requested start; a successful call adds exactly one new row, which
\* carries the requested vehicle, the calling user and the requested dates.
C3_CreateIffFree ==
    \A u \in Usuarios : \A vid \in vehiculos : \A fi \in Tiempos : \A ff \in Tiempos :
        HayLugar =>
            /\ Libre(vid, fi, ff) <=>
                  ENABLED (create_reserva(u, vid, fi, ff) /\ last'.status = 200)
            /\ Libre(vid, fi, ff) <=>
                  ~ ENABLED (create_reserva(u, vid, fi, ff) /\ last'.status # 200)
            /\ ~ ENABLED
                  (/\ create_reserva(u, vid, fi, ff)
                   /\ last'.status = 200
                   /\ ~ \E id \in ReservaIds :
                         /\ \A r \in reservas : r.id # id
                         /\ last'.key = id
                         /\ reservas' = reservas \cup
                               {[id |-> id, vehiculo_id |-> vid, usuario_id |-> u,
                                 fecha_reserva |-> fi, fecha_devolucion |-> ff]})

\* A call has just succeeded on a vehicle that already had a reservation,
\* and a request overlapping the stored rows would now be refused.
C3_Witness ==
    /\ last.op = "create_reserva" /\ last.status = 200
    /\ \E a \in reservas : \E b \in reservas :
          /\ a.id = last.key /\ b.id # last.key
          /\ a.vehiculo_id = b.vehiculo_id
          /\ a.usuario_id # b.usuario_id

\* C4: with a stored reservation [t0, t1], t0 <= t1, a request [t1, t2] for
\* the same vehicle is refused as not available, and a request that starts
\* strictly after t1 and overlaps no other reservation of the vehicle
\* succeeds.
C4_TouchingBoundary ==
    \A r \in reservas : \A u \in Usuarios :
        r.fecha_reserva <= r.fecha_devolucion =>
            /\ \A t2 \in Tiempos :
                  t2 >= r.fecha_devolucion =>
                      /\ ~ ENABLED (/\ create_reserva(u, r.vehiculo_id, r.fecha_devolucion, t2)
                                    /\ last'.status = 200)
                      /\ ENABLED (/\ create_reserva(u, r.vehiculo_id, r.fecha_devolucion, t2)
                                  /\ last'.status = 400
                                  /\ last'.detail = NoDisponible)
            /\ \A fi \in Tiempos : \A ff \in Tiempos :
                  (/\ fi > r.fecha_devolucion
                   /\ HayLugar
                   /\ ~ \E o \in reservas \ {r} :
                         /\ o.vehiculo_id = r.vehiculo_id
                         /\ o.fecha_reserva <= ff
                         /\ o.fecha_devolucion >= fi) =>
                      /\ ENABLED (/\ create_reserva(u, r.vehiculo_id, fi, ff)
                                  /\ last'.status = 200)
                      /\ ~ ENABLED (/\ create_reserva(u, r.vehiculo_id, fi, ff)
                                    /\ last'.status # 200)

\* Every vehicle exists and the only stored reservation is [0, 0], so the
\* request that was just refused started at 0, the stored row's end.
C4_Witness ==
    /\ last.op = "create_reserva" /\ last.status = 400
    /\ vehiculos = VehiculoIds
    /\ \E r \in reservas :
          reservas = {r} /\ r.fecha_reserva = 0 /\ r.fecha_devolucion = 0

\* C5: a create_reserva call refused as not available leaves the stored
\* reservations exactly as they were.
C5_RejectionNoMutation ==
    [][(last'.op = "create_reserva" /\ last'.status = 400) => reservas' = reservas]_vars

\* A call was just refused while reservations are stored.
C5_Witness ==
    /\ last.op = "create_reserva" /\ last.status = 400
    /\ last.detail = NoDisponible
    /\ reservas # {}

\* C6: every stored reservation has start <= end (a request with
\* start > end is refused before the store is touched).
C6_StartNotAfterEnd ==
    \A r \in reservas : r.fecha_reserva <= r.fecha_devolucion

\* C7: a reservation leaves the store only at an instant strictly before
\* its start; from the start instant on, cancelling is refused.
C7_CancelOnlyBeforeStart ==
    [][\A r \in reservas \ reservas' : ahora < r.fecha_reserva]_vars

\* C8: cancelling an existing reservation as its owner or as an
\* administrator, strictly before its start, answers success and removes
\* that row and no other.
C8_CancelBeforeStart ==
    [][\A r \in reservas :
          (/\ last'.op = "delete_reserva"
           /\ last'.key = r.id
           /\ (r.usuario_id = last'.usuario \/ rol[last'.usuario] = "Administrador")
           /\ ahora < r.fecha_reserva) =>
              /\ last'.status = 200
              /\ reservas' = reservas \ {r}]_vars

\* A client (hence the owner) has just cancelled a reservation after the
\* clock had advanced, and another reservation is still stored.
C8_Witness ==
    /\ last.op = "delete_reserva" /\ last.status = 200
    /\ rol[last.usuario] = "Cliente"
    /\ ahora > 0
    /\ reservas # {}
    /\ \A r \in reservas : r.id # last.key

\* C9: a cancel request from a user who neither owns the reservation nor
\* is Administrador answers 403 and changes nothing; whenever a reservation
\* leaves the store, the call that removed it came from its owner or from
\* an Administrador.
C9_ForbiddenForOthers ==
    [][/\ \A r \in reservas :
             (/\ last'.op = "delete_reserva"
              /\ last'.key = r.id
              /\ r.usuario_id # last'.usuario
              /\ rol[last'.usuario] # "Administrador") =>
                 /\ last'.status = 403
                 /\ reservas' = reservas
       /\ \A r \in reservas \ reservas' :
             /\ last'.op = "delete_reserva"
             /\ last'.key = r.id
             /\ (r.usuario_id = last'.usuario \/ rol[last'.usuario] = "Administrador")]_vars

\* A client was just refused the cancellation of somebody else's
\* reservation, which has not started yet and is still stored.
C9_Witness ==
    /\ last.op = "delete_reserva" /\ last.status = 403
    /\ \E r \in reservas :
          /\ r.id = last.key
          /\ r.usuario_id # last.usuario
          /\ rol[last.usuario] = "Cliente"
          /\ ahora < r.fecha_reserva

\* C10: create_reserva for a vehicle id with no row in vehiculos answers
\* 404, not the 400 of an availability conflict, and inserts nothing.
C10_UnknownVehicleNotFound ==
    \A u \in Usuarios : \A vid \in VehiculoIds \ vehiculos :
        \A fi \in Tiempos : \A ff \in Tiempos :
            /\ ENABLED (/\ create_reserva(u, vid, fi, ff)
                        /\ last'.status = 404
                        /\ reservas' = reservas)
            /\ ~ ENABLED (/\ create_reserva(u, vid, fi, ff)
                          /\ last'.status # 404)

\* C11: for every range [fi, ff] the list of available vehicles is exactly
\* the set of existing vehicles with no stored reservation r such that
\* r.start <= ff and r.end >= fi; vehicles with no reservation at all are in
\* it, vehicles with an overlapping reservation are not.
C11_AvailableExactly ==
    \A fi \in Tiempos : \A ff \in Tiempos :
        LET esperado ==
                {v \in vehiculos :
                    ~ \E r \in reservas : /\ r.vehiculo_id = v
                                          /\ r.fecha_reserva <= ff
                                          /\ r.fecha_devolucion >= fi}
        IN  /\ ENABLED (/\ read_vehiculos_disponibles(fi, ff)
                        /\ last'.status = 200
                        /\ last'.body = esperado)
            /\ ~ ENABLED (/\ read_vehiculos_disponibles(fi, ff)
                          /\ last'.body # esperado)
            /\ \A v \in vehiculos :
                  (\A r \in reservas : r.vehiculo_id # v) => v \in esperado

\* The list was just returned with one vehicle that has no reservation in
\* it and another, which has a reservation, left out.
C11_Witness ==
    /\ last.op = "read_vehiculos_disponibles"
    /\ \E v \in last.body : \A r \in reservas : r.vehiculo_id # v
    /\ \E r \in reservas : r.vehiculo_id \in vehiculos \ last.body

\* C12: read-after-write. Right after a create_reserva call that answered 200
\* with a row of vehicle v and interval [s, e], every range [fi, ff] that
\* overlaps [s, e] reports v as not available: v is absent from the list of
\* available vehicles for [fi, ff], and no further create_reserva for v and
\* [fi, ff], by any user, can succeed.
C12_ReadAfterWrite ==
    (last.op = "create_reserva" /\ last.status = 200) =>
        \A r \in reservas : r.id = last.key =>
            \A fi \in Tiempos : \A ff \in Tiempos :
                (r.fecha_reserva <= ff /\ r.fecha_devolucion >= fi) =>
                    /\ ~ ENABLED (/\ read_vehiculos_disponibles(fi, ff)
                                  /\ r.vehiculo_id \in last'.body)
                    /\ \A u \in Usuarios :
                          /\ ~ ENABLED (/\ create_reserva(u, r.vehiculo_id, fi, ff)
                                        /\ last'.status = 200)
                          /\ ENABLED (/\ create_reserva(u, r.vehiculo_id, fi, ff)
                                      /\ last'.status = 400
                                      /\ last'.detail = NoDisponible
                                      /\ reservas' = reservas)

\* A create_reserva call has just stored a row while the table still has room
\* for another one, and some range overlapping the new row exists (the row is
\* not inverted), so the rejection of the further call is due to the overlap.
C12_Witness ==
    /\ last.op = "create_reserva"
    /\ last.status = 200
    /\ HayLugar
    /\ \E r \in reservas : /\ r.id = last.key
                           /\ r.fecha_reserva < r.fecha_devolucion

\* The vehicles of the calls that are between their query and their commit.
EnCurso == {pend[q].vehiculo_id : q \in {x \in Sesiones : pc[x] = "commit"}}

\* The reservas of one vehicle.
DeVehiculo(rs, vid) == {r \in rs : r.vehiculo_id = vid}

Intervalo(s, e) == [fecha_reserva |-> s, fecha_devolucion |-> e]

\* C14: overlap symmetry.  For every stored row A (inverted rows included) and
\* every interval B over the time domain (inverted ones included), the overlap
\* test of the create_reserva query and the one of the available-vehicles
\* query each give the same answer for A against B as for B against A; so do
\* any two stored rows.
C14_OverlapSymmetry ==
    /\ \A a \in reservas : \A b1 \in Tiempos : \A b2 \in Tiempos :
          /\ Solapa(a, b1, b2)
                = Solapa(Intervalo(b1, b2), a.fecha_reserva, a.fecha_devolucion)
          /\ SolapaDisponibles(a, b1, b2)
                = SolapaDisponibles(Intervalo(b1, b2), a.fecha_reserva, a.fecha_devolucion)
    /\ \A a \in reservas : \A b \in reservas :
          /\ Solapa(a, b.fecha_reserva, b.fecha_devolucion)
                = Solapa(b, a.fecha_reserva, a.fecha_devolucion)
          /\ SolapaDisponibles(a, b.fecha_reserva, b.fecha_devolucion)
                = SolapaDisponibles(b, a.fecha_reserva, a.fecha_devolucion)

\* Every vehicle exists, an inverted row and an ordinary row that pass the
\* overlap test against each other are stored (for different vehicles), and a
\* create_reserva call has just been rejected by the test.
C14_Witness ==
    /\ vehiculos = VehiculoIds
    /\ last.op = "create_reserva"
    /\ last.status = 400
    /\ \E a \in reservas : \E b \in reservas :
          /\ a.fecha_reserva > a.fecha_devolucion
          /\ b.fecha_reserva < b.fecha_devolucion
          /\ Solapa(a, b.fecha_reserva, b.fecha_devolucion)

C16_NeverMutated ==
    [][/\ \A r \in reservas : \A n \in reservas' : n.id = r.id => n = r
       /\ reservas' # reservas =>
             \/ /\ last'.op = "create_reserva"
                /\ last'.status = 200
                /\ \E n \in reservas' :
                      /\ n.id = last'.key
                      /\ n.id \notin {r.id : r \in reservas}
                      /\ reservas' = reservas \cup {n}
             \/ /\ last'.op = "delete_reserva"
                /\ last'.status = 200
                /\ \E r \in reservas :
                      /\ r.id = last'.key
                      /\ reservas' = reservas \ {r}]_vars

\* A cancel has just removed one row and another row, stored before it, is
\* still there after the clock has advanced.
C16_Witness ==
    /\ last.op = "delete_reserva"
    /\ last.status = 200
    /\ ahora > 0
    /\ reservas # {}

\* C17: delete_reserva tests for its rejections in the order 404, 403, 400.
\* A call for an id that no stored reserva has answers 404 "Reserva no
\* encontrada", whoever calls.  A call for a stored reserva by a user who is
\* neither its owner nor an administrator answers 403, before as well as
\* after the reserva has started (never 400).  Only a call by the owner or an
\* administrator for a reserva that has started answers 400.  No rejected
\* call changes the stored reservas.
C17_RejectionOrder ==
    [][last'.op = "delete_reserva" =>
          LET u == last'.usuario
              filas == {r \in reservas : r.id = last'.key}
          IN  /\ filas = {} <=> (last'.status = 404 /\ last'.detail = NoEncontrada)
              /\ \A r \in filas :
                    LET ajeno == r.usuario_id # u /\ rol[u] # "Administrador"
                    IN  /\ ajeno <=> (last'.status = 403 /\ last'.detail = SinPermiso)
                        /\ (~ ajeno /\ ahora > r.fecha_reserva)
                              <=> (last'.status = 400 /\ last'.detail = YaComenzada)
              /\ last'.status \in {404, 403, 400, 200}
              /\ last'.status # 200 => reservas' = reservas]_vars

\* A user who is not an administrator has just been answered 403 for a
\* reserva of another user that had already started.
C17_Witness ==
    /\ last.op = "delete_reserva"
    /\ last.status = 403
    /\ rol[last.usuario] # "Administrador"
    /\ \E r \in reservas : /\ r.id = last.key
                           /\ r.usuario_id # last.usuario
                           /\ ahora > r.fecha_reserva

\* C18: the list of available vehicles agrees with the decision of
\* create_reserva.  In every state, for every range [fi, ff], every existing
\* vehicle v and every user: if v is in the answer of
\* read_vehiculos_disponibles(fi, ff), a create_reserva for v and [fi, ff] run
\* in that state is not rejected, and it answers 200 while the table has
\* room; if v is not in the answer, the create_reserva answers 400 and cannot
\* answer 200.
C18_ListAgreesWithCreate ==
    \A fi \in Tiempos : \A ff \in Tiempos :
        LET lista == get_vehiculos_disponibles(vehiculos, reservas, fi, ff)
        IN  /\ ENABLED (/\ read_vehiculos_disponibles(fi, ff)
                        /\ last'.body = lista)
            /\ \A v \in vehiculos : \A u \in Usuarios :
                  /\ v \in lista =>
                        /\ ~ ENABLED (/\ create_reserva(u, v, fi, ff)
                                      /\ last'.status # 200)
                        /\ HayLugar =>
                              ENABLED (/\ create_reserva(u, v, fi, ff)
                                       /\ last'.status = 200)
                  /\ v \notin lista =>
                        /\ ~ ENABLED (/\ create_reserva(u, v, fi, ff)
                                      /\ last'.status = 200)
                        /\ ENABLED (/\ create_reserva(u, v, fi, ff)
                                    /\ last'.status = 400)

\* The table has room, and the list just answered names one of the two
\* existing vehicles and leaves the other out.
C18_Witness ==
    /\ last.op = "read_vehiculos_disponibles"
    /\ vehiculos = VehiculoIds
    /\ Cardinality(last.body) = 1
    /\ HayLugar

\* C19: repeating a request is rejected.  Right after a create_reserva call
\* that answered 200 and stored row r, a second create_reserva for the same
\* vehicle and the same two dates, by any user, cannot answer 200, whatever
\* the dates the first call was accepted with.
C19_RepeatRejected ==
    (last.op = "create_reserva" /\ last.status = 200) =>
        \A r \in reservas : r.id = last.key =>
            \A u \in Usuarios :
                ~ ENABLED (/\ create_reserva(u, r.vehiculo_id,
                                             r.fecha_reserva, r.fecha_devolucion)
                           /\ last'.status = 200)

\* C20: cancellation frees the interval.  When a delete_reserva call answers
\* 200 for the stored row r of an existing vehicle v, and no other row of v
\* left in the store overlaps the dates of r, then in the state the call
\* leaves behind r is gone, a create_reserva for v with the dates of r, by
\* any user, answers 200, and read_vehiculos_disponibles for those dates
\* answers with a list that has v in it.
C20_CancelFrees ==
    [][(last'.op = "delete_reserva" /\ last'.status = 200) =>
          \A r \in reservas : r.id = last'.key =>
              LET otras == {x \in reservas' : /\ x.id # r.id
                                              /\ x.vehiculo_id = r.vehiculo_id
                                              /\ x.fecha_reserva <= r.fecha_devolucion
                                              /\ x.fecha_devolucion >= r.fecha_reserva}
              IN  (otras = {} /\ r.vehiculo_id \in vehiculos') =>
                      /\ r \notin reservas'
                      /\ \A u \in Usuarios :
                            (ENABLED (/\ create_reserva(u, r.vehiculo_id,
                                                        r.fecha_reserva, r.fecha_devolucion)
                                      /\ last'.status = 200))'
                      /\ (ENABLED (/\ read_vehiculos_disponibles(r.fecha_reserva,
                                                                 r.fecha_devolucion)
                                   /\ r.vehiculo_id \in last'.body))'
                      /\ (~ ENABLED (/\ read_vehiculos_disponibles(r.fecha_reserva,
                                                                   r.fecha_devolucion)
                                     /\ r.vehiculo_id \notin last'.body))']_vars

\* A cancel has just emptied the store while both vehicles exist, so the
\* cancelled row's vehicle has no reserva left at all.
C20_Witness ==
    /\ last.op = "delete_reserva"
    /\ last.status = 200
    /\ vehiculos = VehiculoIds
    /\ reservas = {}

\* C21: no spurious conflict under concurrency.  While a create_reserva call
\* on vehicle v is between its query and its commit: (1) its commit answers
\* 200 and stores its row next to every row already stored, whatever the
\* other session has done meanwhile; (2) a second call on the same v whose
\* dates overlap neither the dates of the call in flight nor a stored reserva
\* of v is never answered 400, and its query is accepted while the table has
\* room.  So in every interleaving of the two queries and the two commits
\* both calls answer 200 and both rows are stored.
C21_NoSpuriousConflict ==
    \A q \in Sesiones : pc[q] = "commit" =>
        /\ ENABLED (/\ create_reserva_commit(q)
                    /\ last'.status = 200
                    /\ reservas \subseteq reservas'
                    /\ \E n \in reservas' \ reservas :
                          /\ n.vehiculo_id = pend[q].vehiculo_id
                          /\ n.usuario_id = pend[q].usuario_id
                          /\ n.fecha_reserva = pend[q].fecha_reserva
                          /\ n.fecha_devolucion = pend[q].fecha_devolucion)
        /\ ~ ENABLED (/\ create_reserva_commit(q)
                      /\ (last'.status # 200 \/ ~ (reservas \subseteq reservas')))
        /\ \A p \in Sesiones \ {q} : pc[p] = "idle" =>
              \A fi \in Tiempos : \A ff \in Tiempos :
                  (/\ ~ (pend[q].fecha_reserva <= ff /\ pend[q].fecha_devolucion >= fi)
                   /\ ~ \E r \in DeVehiculo(reservas, pend[q].vehiculo_id) :
                           r.fecha_reserva <= ff /\ r.fecha_devolucion >= fi) =>
                      \A u \in Usuarios :
                          IF Cardinality(reservas) + Pendientes < Cardinality(ReservaIds)
                          THEN /\ ENABLED (/\ create_reserva_query(p, u, pend[q].vehiculo_id, fi, ff)
                                           /\ pc'[p] = "commit"
                                           /\ pc'[q] = "commit"
                                           /\ pend'[p] = db_reserva(pend[q].vehiculo_id, u, fi, ff))
                               /\ ~ ENABLED (/\ create_reserva_query(p, u, pend[q].vehiculo_id, fi, ff)
                                             /\ last'.status = 400)
                          ELSE ~ ENABLED (/\ create_reserva_query(p, u, pend[q].vehiculo_id, fi, ff)
                                          /\ last'.status = 400)

\* Both sessions are between query and commit, for the same vehicle and with
\* dates that do not overlap each other.
C21_Witness ==
    /\ \A p \in Sesiones : pc[p] = "commit"
    /\ \E p \in Sesiones : \E q \in Sesiones :
          /\ p # q
          /\ pend[p].vehiculo_id = pend[q].vehiculo_id
          /\ pend[p].fecha_reserva <= pend[p].fecha_devolucion
          /\ pend[q].fecha_reserva <= pend[q].fecha_devolucion
          /\ ~ (pend[p].fecha_reserva <= pend[q].fecha_devolucion
                /\ pend[p].fecha_devolucion >= pend[q].fecha_reserva)

====
